---- MODULE Spec2Model ----
(***************************************************************************)
(* Model of watcher3-api-adapter.py: the WatcherHandler source client, the *)
(* MovieList / MovieDict collection and the RequestHandler routes, as a    *)
(* state machine whose actions are the process start-up steps and the      *)
(* route callbacks.                                                        *)
(*                                                                         *)
(* Python values are tagged records: None, bool, int, str, dict, list and  *)
(* a requests Response.  A str is a sequence of tokens (the characters of  *)
(* an id, the words of a message); the text json.dumps produces is a str   *)
(* that carries the value it encodes.  An operation that can raise returns *)
(* a record [exc, val] whose exc names the exception ("" when none).       *)
(***************************************************************************)
EXTENDS Integers, Sequences, FiniteSets, TLC

\* ------------------------------------------------------------------ bounds
MaxRequests == 1
MaxCatalog == 2
MaxSegLen == 4
MaxProfiles == 2

\* ------------------------------------------------------- python values
PyNone == [t |-> "None"]
PyBool(b) == [t |-> "bool", b |-> b]
PyInt(n) == [t |-> "int", n |-> n]
PyStr(s) == [t |-> "str", s |-> s]
PyDict(d) == [t |-> "dict", d |-> d]
PyList(l) == [t |-> "list", l |-> l]
EmptyDict == PyDict([k \in {} |-> PyNone])

\* name = value; rest(name): one statement and what follows it
Bind(value, rest(_)) == rest(value)

Ok(v) == [exc |-> "", val |-> v]
Raise(e) == [exc |-> e, val |-> PyNone]

\* bool(v): Python truthiness, as used by `if content:` and `if not x:`
Truthy(v) ==
    CASE v.t = "None" -> FALSE
      [] v.t = "bool" -> v.b
      [] v.t = "int" -> v.n # 0
      [] v.t = "str" -> IF "s" \in DOMAIN v THEN v.s # <<>> ELSE TRUE
      [] v.t = "dict" -> DOMAIN v.d # {}
      [] v.t = "list" -> v.l # <<>>
      [] OTHER -> TRUE

\* v[key] for a str key: only a dict holding the key yields a value
Subscript(v, key) ==
    IF v.t = "dict"
    THEN IF key \in DOMAIN v.d THEN Ok(v.d[key]) ELSE Raise("KeyError")
    ELSE Raise("TypeError")

\* v[key] = val for a str key
SetItem(v, key, val) ==
    IF v.t = "dict"
    THEN Ok(PyDict([k \in DOMAIN v.d \cup {key} |->
                      IF k = key THEN val ELSE v.d[k]]))
    ELSE Raise("TypeError")

\* json.dumps(content, ...): a str carrying the encoded value
Dumps(v) == [t |-> "str", json |-> v]

\* s[:n]
Prefix(s, n) == SubSeq(s, 1, IF n < Len(s) THEN n ELSE Len(s))

\* needle in hay, for two strs
RECURSIVE Contains(_, _)
Contains(needle, hay) ==
    IF Len(hay) < Len(needle) THEN FALSE
    ELSE \/ SubSeq(hay, 1, Len(needle)) = needle
         \/ Contains(needle, Tail(hay))

\* str(n) and int(s) for decimal digit strings
Digits == <<"0", "1", "2", "3", "4", "5", "6", "7", "8", "9">>
IsDigit(c) == \E i \in 1..Len(Digits) : Digits[i] = c
DigitVal(c) == (CHOOSE i \in 1..Len(Digits) : Digits[i] = c) - 1

RECURSIVE StrOfInt(_)
StrOfInt(n) ==
    IF n < 10 THEN <<Digits[n + 1]>>
    ELSE StrOfInt(n \div 10) \o <<Digits[(n % 10) + 1]>>

RECURSIVE IntOfStr(_)
IntOfStr(s) ==
    IF Len(s) = 1 THEN DigitVal(s[1])
    ELSE 10 * IntOfStr(SubSeq(s, 1, Len(s) - 1)) + DigitVal(s[Len(s)])

\* ------------------------------------------------- WatcherHandler.get_data
\* What the HTTP GET to the source can do: an SSLError, a ConnectionError,
\* a body that is not JSON, or a JSON body.
ConnectError == <<"Could", "not", "connect", "to", "host">>
FailureEnvelope(msg) ==
    PyDict([response |-> PyBool(FALSE), error |-> PyStr(msg)])

Ssl == [kind |-> "ssl", body |-> PyNone]
Conn == [kind |-> "conn", body |-> PyNone]
NotJson == [kind |-> "text", body |-> PyStr(<<"<html>">>)]
Json(v) == [kind |-> "json", body |-> v]

\* data.json() with the `except JSONDecodeError: data = data.text` around it
JsonOrText(data) ==
    IF data.t = "Response"
    THEN Ok(data.body)
    ELSE Raise("AttributeError")

\* get_data(mode, get_vars) when the GET has outcome o:
\* [call, exc, val], call being the query with the transport outcome
\* self.client.get(url, verify=ssl_verify) with its two except clauses
ClientGet(o) ==
    CASE o.kind = "ssl" -> Raise("SystemExit")
      [] o.kind = "conn" -> Ok(FailureEnvelope(ConnectError))
      [] OTHER -> Ok([t |-> "Response", body |-> o.body])

\* get_data(mode, get_vars) when the GET has outcome o: [call, exc, val];
\* call records the query, the outcome of the GET and how get_data ended
get_data(mode, get_vars, o) ==
    Bind(ClientGet(o), LAMBDA data :
    Bind(IF data.exc # "" THEN data ELSE JsonOrText(data.val), LAMBDA r :
      [call |-> [mode |-> mode, vars |-> get_vars, outcome |-> o.kind,
                 raised |-> r.exc, returned |-> r.val],
       exc |-> r.exc, val |-> r.val]))

\* --------------------------------------------------------- QualityProfile
\* A dict whose key order matters (the Profiles and Sources of getconfig)
\* is the sequence of its [k, v] entries in insertion order.
Ordered(entries) == [t |-> "dict", ord |-> entries]

\* str.lower()
UpperCase == <<"A", "B", "C", "D", "E", "F", "G", "H", "I", "J", "K", "L", "M",
               "N", "O", "P", "Q", "R", "S", "T", "U", "V", "W", "X", "Y", "Z">>
LowerCase == <<"a", "b", "c", "d", "e", "f", "g", "h", "i", "j", "k", "l", "m",
               "n", "o", "p", "q", "r", "s", "t", "u", "v", "w", "x", "y", "z">>
LowerChar(c) ==
    IF \E i \in DOMAIN UpperCase : UpperCase[i] = c
    THEN LowerCase[CHOOSE i \in DOMAIN UpperCase : UpperCase[i] = c]
    ELSE c
Lower(s) == [i \in DOMAIN s |-> LowerChar(s[i])]

\* s.rsplit('-', 1): the parts around the last '-'
SplitLastDash(s) ==
    LET dashes == {i \in DOMAIN s : s[i] = "-"}
    IN  IF dashes = {} THEN <<s>>
        ELSE LET i == CHOOSE j \in dashes : \A k \in dashes : k <= j
             IN  <<SubSeq(s, 1, i - 1), SubSeq(s, i + 1, Len(s))>>

\* s.split('-', 1): the parts around the first '-', s alone when it has none
SplitDash(s) ==
    LET dashes == {i \in DOMAIN s : s[i] = "-"}
    IN  IF dashes = {} THEN <<s>>
        ELSE LET i == CHOOSE j \in dashes : \A k \in dashes : j <= k
             IN  <<SubSeq(s, 1, i - 1), SubSeq(s, i + 1, Len(s))>>

\* source, res_string = item.lower().split('-', 1), with the except
\* ValueError branch for a label that does not split in two
SourceAndRes(item) ==
    LET parts == SplitDash(Lower(item))
    IN  IF Len(parts) = 2 THEN [source |-> parts[1], res_string |-> parts[2]]
        ELSE [source |-> Lower(item), res_string |-> <<"0">>]

\* res_map.get(res_string, 0)
ResMap(res_string) ==
    CASE res_string = <<"s", "d">> -> 480
      [] res_string = <<"7", "2", "0", "p">> -> 720
      [] res_string = <<"1", "0", "8", "0", "p">> -> 1080
      [] res_string = <<"4", "k">> -> 2160
      [] OTHER -> 0

\* the entry appended to items for the label item with item_data
QualityItem(item, item_data) ==
    PyDict([quality |->
                PyDict([id |-> item_data.l[2],
                        name |-> PyStr(item),
                        source |-> PyStr(SourceAndRes(item).source),
                        resolution |-> PyInt(ResMap(SourceAndRes(item).res_string)),
                        modifier |-> PyStr(<<"none">>)]),
            items |-> PyList(<<>>),
            allowed |-> item_data.l[1]])

\* parse_single_quality with the profile id counted from 0
parse_single_quality_from_zero(name, data, profile_count) ==
    Bind(Subscript(data, "Sources"), LAMBDA sources :
      IF sources.exc # "" THEN sources
      ELSE Ok(PyDict([name |-> PyStr(<<name>>),
                      items |-> PyList([i \in DOMAIN sources.val.ord |->
                                   QualityItem(sources.val.ord[i].k,
                                               sources.val.ord[i].v)]),
                      minFormatScore |-> PyInt(0),
                      cutoffFormatScore |-> PyInt(0),
                      id |-> PyInt(profile_count - 1)])))

\* parse_single_quality(name, data, profile_count): [exc, val]
parse_single_quality(name, data, profile_count) ==
    Bind(Subscript(data, "Sources"), LAMBDA sources :
      IF sources.exc # "" THEN sources
      ELSE Ok(PyDict([name |-> PyStr(<<name>>),
                      items |-> PyList([i \in DOMAIN sources.val.ord |->
                                   QualityItem(sources.val.ord[i].k,
                                               sources.val.ord[i].v)]),
                      minFormatScore |-> PyInt(0),
                      cutoffFormatScore |-> PyInt(0),
                      id |-> PyInt(profile_count)])))

\* the `for profile in quality_data['Profiles']` loop at the profile that
\* gets the id profile_count; acc is [exc, val], val the list built so far
RECURSIVE ProfileLoop(_, _, _)
ProfileLoop(profiles, profile_count, acc) ==
    IF profile_count > Len(profiles) \/ acc.exc # "" THEN acc
    ELSE Bind(parse_single_quality(profiles[profile_count].k,
                                   profiles[profile_count].v, profile_count),
              LAMBDA profile :
                ProfileLoop(profiles, profile_count + 1,
                            [exc |-> profile.exc,
                             val |-> IF profile.exc = ""
                                     THEN Append(acc.val, profile.val)
                                     ELSE acc.val]))

\* QualityProfile.__init__(watcher_handler): [exc, val], val the list
QualityProfile(cfg) ==
    Bind(Subscript(cfg, "Quality"), LAMBDA quality_data :
      IF quality_data.exc # "" THEN [exc |-> quality_data.exc, val |-> <<>>]
      ELSE
    Bind(Subscript(quality_data.val, "Profiles"), LAMBDA profiles :
      IF profiles.exc # "" THEN [exc |-> profiles.exc, val |-> <<>>]
      ELSE ProfileLoop(profiles.val.ord, 1, Ok(<<>>))))

\* ------------------------------------------------------------- MovieDict
\* 'imdbid=' + movie_id and 'tmdbid=' + movie_id: the key and the id
IdString(key, movie_id) == [k |-> key, v |-> movie_id]
NoVars == [k |-> "", v |-> <<>>]

AllDigits(s) == s # <<>> /\ \A i \in 1..Len(s) : IsDigit(s[i])

\* int(x) for a str x
PyIntOf(x) ==
    IF x.t = "str" /\ AllDigits(x.s) THEN Ok(PyInt(IntOfStr(x.s)))
    ELSE Raise("ValueError")

\* parse_liststatus: the identifier fields of the record built from one
\* liststatus entry and the blank defaults the metadata replaces; a missing
\* key raises KeyError
parse_liststatus(liststatus) ==
    LET tmdbid == Subscript(liststatus, "tmdbid")
        imdbid == Subscript(liststatus, "imdbid")
        n == PyIntOf(tmdbid.val)
    IN  IF tmdbid.exc # "" THEN Raise(tmdbid.exc)
        ELSE IF n.exc # "" THEN Raise(n.exc)
        ELSE IF imdbid.exc # "" THEN Raise(imdbid.exc)
        ELSE Ok(PyDict([tmdbId |-> n.val, imdbId |-> imdbid.val,
                        images |-> PyList(<<>>), website |-> PyStr(<<>>),
                        studio |-> PyStr(<<>>),
                        titleSlug |-> tmdbid.val, id |-> n.val,
                        alternateTitles |-> PyList(<<>>)]))

\* self[key] = value for every key of fields
Update(self, fields) ==
    PyDict([k \in DOMAIN self.d \cup DOMAIN fields |->
              IF k \in DOMAIN fields THEN fields[k] ELSE self.d[k]])

\* an exception raised while self is as the statements before it left it
Keep(e, self) == [exc |-> e, val |-> self]

\* st, then the next statement on the record st left, unless st raised
Then(st, step(_)) == IF st.exc # "" THEN st ELSE step(st.val)

\* list(filter(lambda x: x['type'] == n, release_dates))
OfType(release_dates, n) ==
    SelectSeq(release_dates, LAMBDA x : x.d.type = PyInt(n))

\* parse_release_dates: the cinema release (type 3) and its certification
CinemaRelease(self, release_dates) ==
    IF OfType(release_dates, 3) = <<>> THEN Ok(self)
    ELSE Bind(Update(self, [inCinemas |->
                              OfType(release_dates, 3)[1].d.release_date]),
              LAMBDA dated :
                IF "certification" \notin DOMAIN OfType(release_dates, 3)[1].d
                THEN Keep("KeyError", dated)
                ELSE Ok(Update(dated, [certification |->
                          OfType(release_dates, 3)[1].d.certification])))

\* parse_release_dates: the physical (type 5) and digital (type 4) releases
OtherRelease(self, release_dates, n, key) ==
    IF OfType(release_dates, n) = <<>> THEN Ok(self)
    ELSE Ok(Update(self, [k \in {key} |-> OfType(release_dates, n)[1].d.release_date]))

\* parse_release_dates(release_dates): [exc, val], val the record so far
parse_release_dates(self, release_dates) ==
    Then(CinemaRelease(self, release_dates), LAMBDA cinema :
    Then(OtherRelease(cinema, release_dates, 5, "physicalRelease"), LAMBDA physical :
      OtherRelease(physical, release_dates, 4, "digitalRelease")))

\* parse_movie_metadata: data_map and the loop that stores it
MetadataKeys == <<"status", "homepage", "runtime", "vote_count", "vote_average">>
MapData(self, metadata) ==
    IF metadata.t # "dict" THEN Keep("TypeError", self)
    ELSE IF "status" \notin DOMAIN metadata.d THEN Keep("KeyError", self)
    ELSE IF metadata.d.status.t # "str" \/ "s" \notin DOMAIN metadata.d.status
    THEN Keep("AttributeError", self)
    ELSE IF \E i \in DOMAIN MetadataKeys : MetadataKeys[i] \notin DOMAIN metadata.d
    THEN Keep("KeyError", self)
    ELSE Ok(Update(self,
              [status |-> PyStr(Lower(metadata.d.status.s)),
               website |-> metadata.d.homepage,
               runtime |-> metadata.d.runtime,
               ratings |-> PyDict([votes |-> metadata.d.vote_count,
                                   value |-> metadata.d.vote_average])]))

\* parse_movie_metadata: the studio, with IndexError let through
StudioUnguarded(self, metadata) ==
    IF "production_companies" \notin DOMAIN metadata.d THEN Keep("KeyError", self)
    ELSE IF metadata.d.production_companies.l = <<>> THEN Keep("IndexError", self)
    ELSE IF "name" \notin DOMAIN metadata.d.production_companies.l[1].d
    THEN Keep("KeyError", self)
    ELSE Ok(Update(self, [studio |-> metadata.d.production_companies.l[1].d.name]))

\* parse_movie_metadata: the studio, with its except IndexError
Studio(self, metadata) ==
    IF "production_companies" \notin DOMAIN metadata.d THEN Keep("KeyError", self)
    ELSE IF metadata.d.production_companies.l = <<>> THEN Ok(self)
    ELSE IF "name" \notin DOMAIN metadata.d.production_companies.l[1].d
    THEN Keep("KeyError", self)
    ELSE Ok(Update(self, [studio |-> metadata.d.production_companies.l[1].d.name]))

\* parse_movie_metadata: local_country, False when no country is listed
LocalCountry(metadata) ==
    IF "production_countries" \notin DOMAIN metadata.d THEN Raise("KeyError")
    ELSE IF metadata.d.production_countries.l = <<>> THEN Ok(PyBool(FALSE))
    ELSE Subscript(metadata.d.production_countries.l[1], "iso_3166_1")

\* the release sets of the country: list(filter(lambda x: ..., results))
LocalReleases(results, local_country) ==
    SelectSeq(results, LAMBDA x : x.d.iso_3166_1 = local_country)

\* parse_movie_metadata: the release dates of local_country, with the
\* except IndexError for a country without a release set
Releases(self, metadata, local_country) ==
    Bind(Subscript(metadata, "release_dates"), LAMBDA dates :
      IF dates.exc # "" THEN Keep(dates.exc, self)
      ELSE
    Bind(Subscript(dates.val, "results"), LAMBDA results :
      IF results.exc # "" THEN Keep(results.exc, self)
      ELSE IF LocalReleases(results.val.l, local_country) = <<>> THEN Ok(self)
      ELSE
    Bind(Subscript(LocalReleases(results.val.l, local_country)[1],
                   "release_dates"), LAMBDA release_dates :
      IF release_dates.exc # "" THEN Keep(release_dates.exc, self)
      ELSE parse_release_dates(self, release_dates.val.l))))

\* one entry of self['images']
Image(coverType, path) ==
    PyDict([coverType |-> PyStr(<<coverType>>),
            remoteURL |-> PyStr(<<"https://image.tmdb.org/t/p/original">> \o path.s)])

\* self['images'].append(...) when metadata[key] is truthy
AddImage(self, metadata, key, coverType) ==
    IF key \notin DOMAIN metadata.d THEN Keep("KeyError", self)
    ELSE IF ~Truthy(metadata.d[key]) THEN Ok(self)
    ELSE Ok(Update(self, [images |->
              PyList(Append(self.d.images.l, Image(coverType, metadata.d[key])))]))

\* parse_movie_metadata: the poster and the fanart
Images(self, metadata) ==
    Then(AddImage(Update(self, [images |-> PyList(<<>>)]), metadata,
                  "poster_path", "poster"), LAMBDA poster :
      AddImage(poster, metadata, "backdrop_path", "fanart"))

\* parse_movie_metadata: the genre names
Genres(self, metadata) ==
    IF "genres" \notin DOMAIN metadata.d
    THEN Keep("KeyError", Update(self, [genres |-> PyList(<<>>)]))
    ELSE Ok(Update(self, [genres |->
              PyList([i \in DOMAIN metadata.d.genres.l |->
                        metadata.d.genres.l[i].d.name])]))

\* one entry of self['alternateTitles']
AlternateTitle(id, title, title_count) ==
    PyDict([sourceType |-> PyStr(<<"tmdb">>), movieId |-> id, title |-> title,
            sourceId |-> id, votes |-> PyInt(0), voteCount |-> PyInt(0),
            language |-> PyDict([id |-> PyInt(1), name |-> PyStr(<<"English">>)]),
            id |-> PyInt(title_count)])

\* parse_movie_metadata: the alternate titles, numbered from 2
AlternateTitles(self, metadata) ==
    Bind(Update(self, [alternateTitles |-> PyList(<<>>)]), LAMBDA blank :
    Bind(Subscript(metadata, "alternative_titles"), LAMBDA alternative :
      IF alternative.exc # "" THEN Keep(alternative.exc, blank)
      ELSE
    Bind(Subscript(alternative.val, "titles"), LAMBDA titles :
      IF titles.exc # "" THEN Keep(titles.exc, blank)
      ELSE IF titles.val.l = <<>> THEN Ok(blank)
      ELSE IF "id" \notin DOMAIN metadata.d THEN Keep("KeyError", blank)
      ELSE Ok(Update(blank, [alternateTitles |->
                PyList([i \in DOMAIN titles.val.l |->
                          AlternateTitle(metadata.d.id,
                                         titles.val.l[i].d.title, i + 1)])])))))

\* parse_movie_metadata(metadata): [exc, val], val the record as the
\* statements that ran left it
parse_movie_metadata(self, metadata) ==
    Then(MapData(self, metadata), LAMBDA mapped :
    Then(Studio(mapped, metadata), LAMBDA studio :
    Bind(LocalCountry(metadata), LAMBDA local_country :
      IF local_country.exc # "" THEN Keep(local_country.exc, studio)
      ELSE
    Then(Releases(studio, metadata, local_country.val), LAMBDA released :
    Then(Images(released, metadata), LAMBDA images :
    Then(Genres(images, metadata), LAMBDA genres :
      AlternateTitles(genres, metadata)))))))

\* MovieDict.__init__(watcher_handler, liststatus, meta) when the
\* movie_metadata GET has outcome mo: [calls, exc, val]
MovieDict(liststatus, meta, mo) ==
    Bind(parse_liststatus(liststatus), LAMBDA basic :
      IF basic.exc # "" THEN [calls |-> <<>>, exc |-> basic.exc, val |-> PyNone]
      ELSE IF ~meta THEN [calls |-> <<>>, exc |-> "", val |-> basic.val]
      ELSE
    Bind(get_data("movie_metadata",
                  IdString("imdbid", basic.val.d.imdbId.s), mo), LAMBDA fetch :
      IF fetch.exc # ""
      THEN [calls |-> <<fetch.call>>, exc |-> fetch.exc, val |-> PyNone]
      ELSE
    Bind(Subscript(fetch.val, "tmdb_data"), LAMBDA tmdb_data :
      IF tmdb_data.exc = "KeyError"
      THEN [calls |-> <<fetch.call>>, exc |-> "", val |-> basic.val]
      ELSE IF tmdb_data.exc # ""
      THEN [calls |-> <<fetch.call>>, exc |-> tmdb_data.exc, val |-> PyNone]
      ELSE
    Bind(parse_movie_metadata(basic.val, tmdb_data.val), LAMBDA parsed :
      IF parsed.exc = "KeyError"
      THEN [calls |-> <<fetch.call>>, exc |-> "", val |-> parsed.val]
      ELSE [calls |-> <<fetch.call>>, exc |-> parsed.exc, val |-> parsed.val]))))

\* ------------------------------------------------------------- MovieList
\* do_metadata left True for the full catalog too
DoMetadataAlways(movie_id) == TRUE

\* do_metadata: metadata is fetched only when one movie is asked for
DoMetadata(movie_id) == movie_id # <<>>

\* the id_string of MovieList.__init__ and get_movie
ListVars(movie_id) ==
    IF movie_id = <<>> THEN NoVars
    ELSE IF Prefix(movie_id, 2) = <<"t", "t">>
         THEN IdString("imdbid", movie_id)
         ELSE IdString("tmdbid", movie_id)

\* the `for movie in liststatus` loop from entry i on; acc is
\* [calls, exc, val] with val the list built so far
RECURSIVE MovieLoop(_, _, _, _, _)
MovieLoop(movies, i, meta, metas, acc) ==
    IF i > Len(movies) \/ acc.exc # "" THEN acc
    ELSE Bind(MovieDict(movies[i], meta,
                        IF i \in DOMAIN metas THEN metas[i] ELSE Conn),
              LAMBDA m :
                MovieLoop(movies, i + 1, meta, metas,
                          [calls |-> acc.calls \o m.calls,
                           exc |-> m.exc,
                           val |-> IF m.exc = "" THEN Append(acc.val, m.val)
                                   ELSE acc.val]))

\* MovieList.__init__(watcher_handler, movie_id) when the liststatus GET has
\* outcome lo and the i-th movie_metadata GET has outcome metas[i]:
\* [calls, exc, val], val the list
MovieList(movie_id, lo, metas) ==
    Bind(get_data("liststatus", ListVars(movie_id), lo), LAMBDA fetch :
      IF fetch.exc # ""
      THEN [calls |-> <<fetch.call>>, exc |-> fetch.exc, val |-> <<>>]
      ELSE
    Bind(Subscript(fetch.val, "movies"), LAMBDA movies :
      IF movies.exc = "KeyError"
      THEN [calls |-> <<fetch.call>>, exc |-> "", val |-> <<fetch.val>>]
      ELSE IF movies.exc # ""
      THEN [calls |-> <<fetch.call>>, exc |-> movies.exc, val |-> <<>>]
      ELSE MovieLoop(movies.val.l, 1, DoMetadata(movie_id), metas,
                     [calls |-> <<fetch.call>>, exc |-> "", val |-> <<>>])))

\* ------------------------------------------------- RequestHandler.respond
\* respond(status, content): [status, val], val what the callback returns
respond(status, content) ==
    [status |-> status,
     val |-> IF Truthy(content) THEN Dumps(content) ELSE PyBool(FALSE)]

NotFound == PyDict([message |-> PyStr(<<"NotFound">>)])

\* --------------------------------------------- RequestHandler.get_movie
\* get_movie answering 404 only when a movie id was given
get_movie_list_empty(movie_id, lo, metas) ==
    Bind(MovieList(movie_id, lo, metas), LAMBDA movie_list :
      IF movie_list.exc # ""
      THEN [calls |-> movie_list.calls, exc |-> movie_list.exc,
            status |-> 200, val |-> PyNone]
      ELSE
    Bind(IF movie_id = <<>> THEN respond(200, PyList(movie_list.val))
         ELSE IF movie_list.val = <<>> THEN respond(404, NotFound)
         ELSE respond(200, movie_list.val[1]),
         LAMBDA r :
           [calls |-> movie_list.calls, exc |-> "",
            status |-> r.status, val |-> r.val]))

\* get_movie(movie_id): [calls, exc, status, val]; status is 200 until
\* respond sets it
get_movie(movie_id, lo, metas) ==
    Bind(MovieList(movie_id, lo, metas), LAMBDA movie_list :
      IF movie_list.exc # ""
      THEN [calls |-> movie_list.calls, exc |-> movie_list.exc,
            status |-> 200, val |-> PyNone]
      ELSE
    Bind(IF movie_list.val = <<>> THEN respond(404, NotFound)
         ELSE respond(200, IF movie_id # <<>> THEN movie_list.val[1]
                           ELSE PyList(movie_list.val)),
         LAMBDA r :
           [calls |-> movie_list.calls, exc |-> "",
            status |-> r.status, val |-> r.val]))

\* --------------------------------------------- RequestHandler.put_movie
\* put_movie that passes the edit on to the source
put_movie_forwarding(movie_id) ==
    Bind(get_data("editmovie", ListVars(movie_id), Conn), LAMBDA data :
      [calls |-> <<data.call>>, exc |-> "", status |-> 200, val |-> PyBool(FALSE)])

\* put_movie(movie_id): logs the request and answers; [calls, exc, status, val]
put_movie(movie_id) ==
    Bind(respond(200, PyBool(FALSE)), LAMBDA r :
      [calls |-> <<>>, exc |-> "", status |-> r.status, val |-> r.val])

\* str(x) for an int or a str
PyStrOf(x) == IF x.t = "int" THEN StrOfInt(x.n) ELSE x.s

\* ---------------------------------------- RequestHandler.add_movie_error
\* add_movie_error(tmdb_id, error_code): the one-entry validation-error list
ErrorMessage(error_code) ==
    IF error_code = "NotEmptyValidator"
    THEN <<"'Tmdb Id'", "must", "not", "be", "empty.">>
    ELSE <<"This", "movie", "has", "already", "been", "added">>

add_movie_error(tmdb_id, error_code) ==
    PyList(<<PyDict([propertyName |-> PyStr(<<"TmdbId">>),
                     errorMessage |-> PyStr(ErrorMessage(error_code)),
                     attemptedValue |-> tmdb_id,
                     severity |-> PyStr(<<"error">>),
                     errorCode |-> PyStr(<<"NotEmptyValidator">>),
                     resourceName |-> PyStr(<<error_code>>)])>>)

\* --------------------------------------------- RequestHandler.add_movie
Failed(calls, exc, status) ==
    [calls |-> calls, exc |-> exc, status |-> status, val |-> PyNone]
Done(calls, r) ==
    [calls |-> calls, exc |-> "", status |-> r.status, val |-> r.val]

\* the `if not data['response']:` branch of add_movie
AddFailed(data, response_data, calls) ==
    Bind(Subscript(data, "error"), LAMBDA error :
      IF error.exc # "" THEN Failed(calls, error.exc, response_data.status)
      ELSE IF error.val.t # "str"
      THEN Failed(calls, "TypeError", response_data.status)
      ELSE IF Contains(<<"already", "exists">>, error.val.s)
      THEN Bind(Subscript(response_data.val, "tmdbId"), LAMBDA tmdbId :
             IF tmdbId.exc # ""
             THEN Failed(calls, tmdbId.exc, response_data.status)
             ELSE Done(calls, respond(400,
                     add_movie_error(tmdbId.val, "MovieExistsValidator"))))
      ELSE Done(calls, respond(400, PyDict([error |-> error.val]))))

\* the part of add_movie after the id is read: forward the add, fetch the
\* movie, answer
AddForward(request_data, movie_id, id_string, ao, lo, metas) ==
    Bind(get_data("addmovie", id_string, ao), LAMBDA data :
      IF data.exc # "" THEN Failed(<<data.call>>, data.exc, 200)
      ELSE
    Bind(get_movie(movie_id, lo, metas), LAMBDA response_data :
    Bind(<<data.call>> \o response_data.calls, LAMBDA calls :
      IF response_data.exc # ""
      THEN Failed(calls, response_data.exc, response_data.status)
      ELSE
    Bind(Subscript(data.val, "response"), LAMBDA ok :
      IF ok.exc # "" THEN Failed(calls, ok.exc, response_data.status)
      ELSE IF ~Truthy(ok.val) THEN AddFailed(data.val, response_data, calls)
      ELSE
    Bind(Subscript(request_data, "addOptions"), LAMBDA addOptions :
      IF addOptions.exc # ""
      THEN Failed(calls, addOptions.exc, response_data.status)
      ELSE
    Bind(SetItem(response_data.val, "addOptions", addOptions.val), LAMBDA merged :
      IF merged.exc # "" THEN Failed(calls, merged.exc, response_data.status)
      ELSE Done(calls, respond(201, merged.val))))))))

\* add_movie() for the JSON body request_data (None when the body is empty)
\* when the addmovie GET has outcome ao: [calls, exc, status, val]
add_movie(request_data, ao, lo, metas) ==
    Bind(Subscript(request_data, "tmdbId"), LAMBDA tmdbId :
      IF tmdbId.exc = ""
      THEN AddForward(request_data, PyStrOf(tmdbId.val),
                      IdString("tmdbid", PyStrOf(tmdbId.val)), ao, lo, metas)
      ELSE IF tmdbId.exc # "KeyError" THEN Failed(<<>>, tmdbId.exc, 200)
      ELSE
    Bind(Subscript(request_data, "imdbId"), LAMBDA imdbId :
      IF imdbId.exc = ""
      THEN AddForward(request_data, imdbId.val.s,
                      IdString("imdbid", imdbId.val.s), ao, lo, metas)
      ELSE IF imdbId.exc # "KeyError" THEN Failed(<<>>, imdbId.exc, 200)
      ELSE Done(<<>>, respond(400,
                  add_movie_error(PyInt(0), "NotEmptyValidator")))))

\* ------------------------------------ RequestHandler.get_search_results
\* the search_results request and the answer, after `before` calls
SearchForward(imdb, before, status0, so) ==
    Bind(get_data("search_results", IdString("imdbid", imdb), so), LAMBDA data :
      IF data.exc # "" THEN Failed(Append(before, data.call), data.exc, status0)
      ELSE Done(Append(before, data.call), respond(200, data.val)))

\* get_search_results(movie_id) when the search_results GET has outcome so
get_search_results(movie_id, lo, metas, so) ==
    IF Prefix(movie_id, 2) # <<"t", "t">>
    THEN Bind(get_movie(movie_id, lo, metas), LAMBDA looked :
           IF looked.exc # "" THEN Failed(looked.calls, looked.exc, looked.status)
           ELSE
         Bind(Subscript(looked.val, "imdbId"), LAMBDA imdbId :
           IF imdbId.exc # "" THEN Failed(looked.calls, imdbId.exc, looked.status)
           ELSE SearchForward(PyStrOf(imdbId.val), looked.calls, looked.status, so)))
    ELSE SearchForward(movie_id, <<>>, 200, so)

\* --------------------------------------------- RequestHandler.do_command
\* the "MoviesSearch" branch of do_command
MoviesSearch(post_data, lo, metas, so) ==
    Bind(Subscript(post_data, "movieIds"), LAMBDA movieIds :
      IF movieIds.exc # "" THEN Failed(<<>>, movieIds.exc, 200)
      ELSE IF movieIds.val.l = <<>> THEN Failed(<<>>, "IndexError", 200)
      ELSE
    Bind(get_search_results(PyStrOf(movieIds.val.l[1]), lo, metas, so),
         LAMBDA output :
           IF output.exc # "" THEN output
           ELSE Done(output.calls, respond(200, Dumps(output.val)))))

\* do_command() for the JSON body post_data: [calls, exc, status, val]
do_command(post_data, lo, metas, so) ==
    Bind(Subscript(post_data, "name"), LAMBDA name :
      IF name.exc # "" THEN Failed(<<>>, name.exc, 200)
      ELSE IF name.val = PyStr(<<"MoviesSearch">>)
      THEN MoviesSearch(post_data, lo, metas, so)
      ELSE Done(<<>>, respond(404, PyBool(FALSE))))

\* ------------------------------------------ RequestHandler.get_qualities
get_qualities(cfg) ==
    Bind(QualityProfile(cfg), LAMBDA profiles :
      IF profiles.exc # "" THEN Failed(<<>>, profiles.exc, 200)
      ELSE Done(<<>>, respond(200, PyList(profiles.val))))

\* ----------------------------------------- RequestHandler.get_rootfolder
\* s.rsplit('/', 1)[0]: what precedes the last '/', all of s when it has none
RECURSIVE RSplitHead(_)
RSplitHead(s) ==
    IF \A i \in DOMAIN s : s[i] # "/" THEN s
    ELSE IF s[Len(s)] = "/" THEN SubSeq(s, 1, Len(s) - 1)
    ELSE RSplitHead(SubSeq(s, 1, Len(s) - 1))

\* WatcherHandler.rootfolder, set by __init__ from the configuration
rootfolder(cfg) == PyStr(RSplitHead(cfg.d.Postprocessing.d.moverpath.s))

\* free_space: the size of the disk when rootfolder is a directory here,
\* the literal 1000000000000 otherwise
FreeSpace(isdir) ==
    [t |-> "int", of |-> IF isdir THEN "disk_usage.total" ELSE "1000000000000"]

\* dict({"error": data['error']}): [exc, val]
ErrorEnvelope(data) ==
    Bind(Subscript(data, "error"), LAMBDA error :
      IF error.exc # "" THEN error ELSE Ok(PyDict([error |-> error.val])))

\* get_rootfolder() when the getconfig GET has outcome o and
\* os.path.isdir(rootfolder) is isdir: [calls, exc, status, val]; the error
\* branch sets the status and returns the dict itself
get_rootfolder(cfg, o, isdir) ==
    Bind(get_data("getconfig", NoVars, o), LAMBDA data :
      IF data.exc # "" THEN Failed(<<data.call>>, data.exc, 200)
      ELSE
    Bind(Subscript(data.val, "response"), LAMBDA ok :
      IF ok.exc # "" THEN Failed(<<data.call>>, ok.exc, 200)
      ELSE IF ~Truthy(ok.val)
      THEN Bind(ErrorEnvelope(data.val), LAMBDA envelope :
             IF envelope.exc # "" THEN Failed(<<data.call>>, envelope.exc, 405)
             ELSE Done(<<data.call>>, [status |-> 405, val |-> envelope.val]))
      ELSE Done(<<data.call>>,
                respond(200, PyList(<<PyDict([path |-> rootfolder(cfg),
                                              accessible |-> PyBool(TRUE),
                                              freeSpace |-> FreeSpace(isdir),
                                              id |-> PyInt(1)])>>)))))

\* --------------------------------------------- RequestHandler.get_status
\* get_status that asks once more when the source answers response false
get_status_retrying(o) ==
    Bind(get_data("version", NoVars, o), LAMBDA data :
      IF data.exc # "" THEN Failed(<<data.call>>, data.exc, 200)
      ELSE
    Bind(Subscript(data.val, "response"), LAMBDA ok :
      IF ok.exc # "" THEN Failed(<<data.call>>, ok.exc, 200)
      ELSE IF ~Truthy(ok.val)
      THEN Bind(ErrorEnvelope(data.val), LAMBDA envelope :
             IF envelope.exc # "" THEN Failed(<<data.call>>, envelope.exc, 200)
             ELSE Done(<<data.call, data.call>>, respond(405, envelope.val)))
      ELSE
    Bind(Subscript(data.val, "version"), LAMBDA version :
      IF version.exc # "" THEN Failed(<<data.call>>, version.exc, 200)
      ELSE Done(<<data.call>>,
                respond(200, PyDict([version |-> version.val]))))))

\* get_status() when the version GET has outcome o
get_status(o) ==
    Bind(get_data("version", NoVars, o), LAMBDA data :
      IF data.exc # "" THEN Failed(<<data.call>>, data.exc, 200)
      ELSE
    Bind(Subscript(data.val, "response"), LAMBDA ok :
      IF ok.exc # "" THEN Failed(<<data.call>>, ok.exc, 200)
      ELSE IF ~Truthy(ok.val)
      THEN Bind(ErrorEnvelope(data.val), LAMBDA envelope :
             IF envelope.exc # "" THEN Failed(<<data.call>>, envelope.exc, 200)
             ELSE Done(<<data.call>>, respond(405, envelope.val)))
      ELSE
    Bind(Subscript(data.val, "version"), LAMBDA version :
      IF version.exc # "" THEN Failed(<<data.call>>, version.exc, 200)
      ELSE Done(<<data.call>>,
                respond(200, PyDict([version |-> version.val]))))))

\* -------------------------------------------- RequestHandler.log_unknown
log_unknown == Done(<<>>, respond(404, PyBool(FALSE)))

\* --------------------------------------------- RequestHandler.id_filter
\* regexp = r'/?((tt)?\d*)?', matched against the whole rest of the path
\* after '/api/v3/movie'.  A set of positions is the set of prefixes of seg
\* consumed so far.
Lit(seg, c, P) == {p + 1 : p \in {q \in P : q < Len(seg) /\ seg[q + 1] = c}}

RECURSIVE StarDigit(_, _)
StarDigit(seg, P) ==
    LET Q == P \cup {p + 1 : p \in {q \in P : q < Len(seg) /\ IsDigit(seg[q + 1])}}
    IN  IF Q = P THEN P ELSE StarDigit(seg, Q)

\* (tt)?\d* from the positions P
TtDigits(seg, P) == StarDigit(seg, P \cup Lit(seg, "t", Lit(seg, "t", P)))

\* the regexp with the 'tt' group followed by \w* in place of \d*
RECURSIVE StarWord(_, _)
StarWord(seg, P) ==
    LET Q == P \cup {p + 1 : p \in {q \in P : q < Len(seg) /\ seg[q + 1] # "/"}}
    IN  IF Q = P THEN P ELSE StarWord(seg, Q)

IdFilterLoose(seg) ==
    LET slash == {0} \cup Lit(seg, "/", {0})
    IN  Len(seg) \in slash \cup StarDigit(seg, slash)
                         \cup StarWord(seg, Lit(seg, "t", Lit(seg, "t", slash)))

IdFilterMatches(seg) ==
    LET slash == {0} \cup Lit(seg, "/", {0})
    IN  Len(seg) \in slash \cup TtDigits(seg, slash)

\* to_id(match): match.replace('/', '')
to_id(match) == SelectSeq(match, LAMBDA c : c # "/")

\* ------------------------------------------------ WatcherHandler.__init__
\* __init__ when the getconfig GET has outcome o: [calls, end, config];
\* end is "" when the handler is constructed, "exit" on sys.exit, "crash"
\* on an exception nothing catches
InitResult(call, end, config) ==
    [calls |-> <<call>>, end |-> end, config |-> config]

\* __init__ that keeps going whatever getconfig did
WatcherHandlerInitLazy(o) ==
    Bind(get_data("getconfig", NoVars, o), LAMBDA fetch :
    Bind(Subscript(fetch.val, "config"), LAMBDA config :
      InitResult(fetch.call, "", IF fetch.exc = "" /\ config.exc = ""
                                 THEN config.val ELSE PyNone)))

WatcherHandlerInit(o) ==
    Bind(get_data("getconfig", NoVars, o), LAMBDA fetch :
      IF fetch.exc = "SystemExit" THEN InitResult(fetch.call, "exit", PyNone)
      ELSE IF fetch.exc # "" THEN InitResult(fetch.call, "crash", PyNone)
      ELSE
    Bind(Subscript(fetch.val, "config"), LAMBDA config :
      IF config.exc = "KeyError" THEN InitResult(fetch.call, "exit", PyNone)
      ELSE IF config.exc # "" THEN InitResult(fetch.call, "crash", PyNone)
      ELSE
    Bind(Subscript(config.val, "Postprocessing"), LAMBDA post :
      IF post.exc # "" THEN InitResult(fetch.call, "crash", PyNone)
      ELSE
    Bind(Subscript(post.val, "moverpath"), LAMBDA moverpath :
      IF moverpath.exc # "" THEN InitResult(fetch.call, "crash", PyNone)
      ELSE InitResult(fetch.call, "", config.val)))))

\* ------------------------------------------------------------- inputs
\* what the source service may answer
Movie(tmdbid, imdbid) ==
    PyDict([tmdbid |-> PyStr(tmdbid), imdbid |-> PyStr(imdbid)])
Movie1 == Movie(<<"1">>, <<"t", "t", "1">>)
Movie603 == Movie(<<"6", "0", "3">>, <<"t", "t", "6", "0", "3">>)
Incomplete == PyDict([imdbid |-> PyStr(<<"t", "t", "3">>)])
Listings == {Movie1, Movie603, Incomplete}

Catalogs == UNION {[1..n -> Listings] : n \in 0..MaxCatalog}
Catalog(movies) ==
    PyDict([response |-> PyBool(TRUE), movies |-> PyList(movies)])

SourceError == <<"Invalid", "filter", "key">>
ExistsError == <<"Movie", "already", "exists", "in", "library">>

ListOutcomes ==
    {Ssl, Conn, NotJson, Json(FailureEnvelope(SourceError))}
        \cup {Json(Catalog(c)) : c \in Catalogs}

\* the tmdb_data of a movie_metadata reply
Company == PyDict([name |-> PyStr(<<"Village Roadshow">>)])
Country(iso) == PyDict([iso_3166_1 |-> PyStr(<<iso>>)])
Release(type, date) ==
    PyDict([type |-> PyInt(type), release_date |-> PyStr(<<date>>),
            certification |-> PyStr(<<"R">>)])
ReleaseSet(iso, releases) ==
    PyDict([iso_3166_1 |-> PyStr(<<iso>>), release_dates |-> PyList(releases)])
Metadata(companies, countries, results, poster) ==
    PyDict([status |-> PyStr(<<"R", "e", "l", "e", "a", "s", "e", "d">>),
            homepage |-> PyStr(<<"http://example.org">>),
            runtime |-> PyInt(136),
            vote_count |-> PyInt(9),
            vote_average |-> PyInt(8),
            production_companies |-> PyList(companies),
            production_countries |-> PyList(countries),
            release_dates |-> PyDict([results |-> PyList(results)]),
            poster_path |-> poster,
            backdrop_path |-> PyStr(<<"/fanart.jpg">>),
            genres |-> PyList(<<PyDict([name |-> PyStr(<<"Action">>)]),
                                PyDict([name |-> PyStr(<<"Drama">>)])>>),
            alternative_titles |->
                PyDict([titles |-> PyList(<<PyDict([title |-> PyStr(<<"Matrix">>)])>>)]),
            id |-> PyInt(1)])
UsReleases ==
    ReleaseSet("US", <<Release(4, "1999-09-21"), Release(3, "1999-03-31"),
                       Release(5, "1999-12-01")>>)
FullMetadata ==
    Metadata(<<Company>>, <<Country("US")>>, <<UsReleases>>, PyStr(<<"/poster.jpg">>))
MetadataReply(tmdb_data) ==
    PyDict([response |-> PyBool(TRUE), tmdb_data |-> tmdb_data])

MetaOutcomes ==
    {Ssl, Conn, NotJson, Json(FailureEnvelope(SourceError)),
     Json(MetadataReply(FullMetadata))}

\* metadata records with a miss: no company, no country, no release set
\* (or not every release type) for the country, no poster, one key absent
Without(metadata, key) ==
    PyDict([k \in DOMAIN metadata.d \ {key} |-> metadata.d[k]])
AllMetadataKeys == DOMAIN FullMetadata.d
MetadataRecords ==
    UNION {{m} \cup {Without(m, key) : key \in AllMetadataKeys} :
           m \in {Metadata(companies, countries, results, poster) :
                    companies \in {<<>>, <<Company>>},
                    countries \in {<<>>, <<Country("US")>>,
                                   <<Country("GB"), Country("US")>>},
                    results \in {<<>>, <<UsReleases>>,
                                 <<ReleaseSet("GB", <<Release(3, "1999-06-11")>>),
                                   ReleaseSet("US", <<Release(4, "1999-09-21")>>)>>,
                                 <<ReleaseSet("GB", <<Release(5, "1999-11-29")>>)>>},
                    poster \in {PyNone, PyStr(<<"/poster.jpg">>)}}}
EnrichOutcomes == {Json(MetadataReply(m)) : m \in MetadataRecords}


AddOutcomes ==
    {Ssl, Conn, NotJson,
     Json(PyDict([response |-> PyBool(TRUE)])),
     Json(FailureEnvelope(ExistsError)),
     Json(FailureEnvelope(SourceError))}

SearchOutcomes ==
    {Ssl, Conn, NotJson,
     Json(PyDict([response |-> PyBool(TRUE), results |-> PyList(<<>>)])),
     Json(FailureEnvelope(SourceError))}

\* the labels of quality sources, and the Sources of a profile
BluRay4K == <<"B", "l", "u", "R", "a", "y", "-", "4", "K">>
BluRay1080P == <<"B", "l", "u", "R", "a", "y", "-", "1", "0", "8", "0", "P">>
WebDL720P == <<"W", "e", "b", "D", "L", "-", "7", "2", "0", "P">>
DvdSD == <<"D", "V", "D", "-", "S", "D">>
Unknown == <<"U", "n", "k", "n", "o", "w", "n">>
Cam == <<"C", "A", "M">>
WebDashDL720P == <<"W", "e", "b", "-", "D", "L", "-", "7", "2", "0", "P">>
Lower1080p == <<"w", "e", "b", "d", "l", "-", "1", "0", "8", "0", "p">>
DvdDash == <<"D", "V", "D", "-">>
DashSd == <<"-", "s", "d">>
Hdtv480P == <<"H", "D", "T", "V", "-", "4", "8", "0", "P">>
Bare4K == <<"4", "K">>

Source(label, allowed, id) ==
    [k |-> label, v |-> PyList(<<PyBool(allowed), PyInt(id)>>)]
Sources(entries) == PyDict([Sources |-> Ordered(entries)])
QualitySources ==
    {Sources(<<>>),
     Sources(<<Source(BluRay4K, TRUE, 0), Source(BluRay1080P, TRUE, 1),
               Source(WebDL720P, FALSE, 2), Source(DvdSD, TRUE, 3)>>),
     Sources(<<Source(Unknown, FALSE, 4), Source(Cam, FALSE, 5),
               Source(WebDashDL720P, TRUE, 6), Source(Bare4K, TRUE, 7)>>),
     Sources(<<Source(DvdDash, TRUE, 8), Source(DashSd, TRUE, 9),
               Source(Hdtv480P, FALSE, 10), Source(Lower1080p, TRUE, 11)>>)}

ProfileNames == {"Default", "HD", "Mobile"}
\* the Profiles of getconfig: up to MaxProfiles named profiles, in any order
ProfileLists ==
    UNION {{[i \in 1..n |-> [k |-> names[i], v |-> sources[i]]] :
              names \in {f \in [1..n -> ProfileNames] :
                           \A i, j \in 1..n : f[i] = f[j] => i = j},
              sources \in [1..n -> QualitySources]} : n \in 0..MaxProfiles}

Config(profiles) ==
    PyDict([Postprocessing |->
                PyDict([moverpath |-> PyStr(<<"/", "movies", "/", "{title}">>)]),
            Quality |-> PyDict([Profiles |-> Ordered(profiles)])])
ConfigReply(cfg) == PyDict([response |-> PyBool(TRUE), config |-> cfg])

GoodConfig ==
    Config(<<[k |-> "HD",
              v |-> Sources(<<Source(BluRay1080P, TRUE, 1)>>)],
             [k |-> "Default",
              v |-> Sources(<<Source(DvdSD, TRUE, 3), Source(Unknown, FALSE, 4)>>)]>>)

ConfigOutcomes ==
    {Ssl, Conn, NotJson, Json(FailureEnvelope(SourceError)),
     Json(PyDict([response |-> PyBool(TRUE), config |-> EmptyDict])),
     Json(PyDict([response |-> PyBool(TRUE), config |-> GoodConfig]))}

Version == PyStr(<<"3.0">>)
VersionOutcomes ==
    {Ssl, Conn, NotJson, Json(FailureEnvelope(SourceError)),
     Json(PyDict([response |-> PyBool(TRUE), version |-> Version]))}

\* a movie_metadata outcome that ends the `for movie in liststatus` loop
Aborts(mo) == MovieDict(Movie1, TRUE, mo).exc # ""

\* the outcomes of n movie_metadata fetches in a row; no fetch follows one
\* that ends the loop, so the outcomes after it are left at Conn
RECURSIVE MetaSeqs(_)
MetaSeqs(n) ==
    IF n = 0 THEN {<<>>}
    ELSE {<<mo>> \o rest :
            mo \in {o \in MetaOutcomes : ~Aborts(o)}, rest \in MetaSeqs(n - 1)}
         \cup {<<mo>> \o [i \in 1..(n - 1) |-> Conn] :
                 mo \in {o \in MetaOutcomes : Aborts(o)}}

\* the movie_metadata outcomes a fetch of movie_id needs, one per listed movie
MetaChoices(movie_id, lo) ==
    IF movie_id # <<>> /\ lo.kind = "json" /\ "movies" \in DOMAIN lo.body.d
    THEN MetaSeqs(Len(lo.body.d.movies.l))
    ELSE {<<>>}

\* what a client may send
Alphabet == {"/", "t", "1", "a"}
Segments == UNION {[1..n -> Alphabet] : n \in 0..MaxSegLen}

SearchNow == PyDict([searchNow |-> PyBool(TRUE)])
AddBodies ==
    {PyNone, EmptyDict,
     PyDict([addOptions |-> SearchNow]),
     PyDict([tmdbId |-> PyInt(603)]),
     PyDict([tmdbId |-> PyInt(603), addOptions |-> SearchNow]),
     PyDict([imdbId |-> PyStr(<<"t", "t", "1">>), addOptions |-> SearchNow])}

PutBodies ==
    {PyNone, EmptyDict, PyStr(<<"{">>),
     PyDict([tmdbId |-> PyInt(603), monitored |-> PyBool(FALSE)])}

Command(name, ids) ==
    PyDict([name |-> PyStr(<<name>>), movieIds |-> PyList(ids)])
CommandBodies ==
    {PyNone,
     Command("MoviesSearch", <<PyInt(603)>>),
     Command("MoviesSearch", <<PyStr(<<"t", "t", "1">>)>>),
     Command("MoviesSearch", <<>>),
     Command("RefreshMovie", <<PyInt(603)>>)}

\* ------------------------------------------------------------- state
VARIABLES
    phase,          \* main(): "boot", "constructed", "started", "exited", "crashed"
    config,         \* WatcherHandler.config
    startupCalls,   \* the source calls made before the server is started
    listening,      \* the server thread runs serve()
    ready,          \* start() after the thread is started: "pending", then
                    \* "written", "failed" (OSError) or "unset" (no ready_fd)
    req,            \* the inbound request being handled, NoRequest when idle
    calls,          \* the source calls made for req, in order
    resp,           \* what the callback of req did
    served          \* requests answered so far

vars == <<phase, config, startupCalls, listening, ready, req, calls, resp,
          served>>

NoRequest == [method |-> "", route |-> "", seg |-> <<>>, body |-> PyNone]
NoResponse == [handler |-> "", exc |-> "", status |-> 0, val |-> PyNone]

Init ==
    /\ phase = "boot"
    /\ config = PyNone
    /\ startupCalls = <<>>
    /\ listening = FALSE
    /\ ready = "pending"
    /\ req = NoRequest
    /\ calls = <<>>
    /\ resp = NoResponse
    /\ served = 0

\* main(): watcher_handler = WatcherHandler(**vars(args))
Construct ==
    /\ phase = "boot"
    /\ \E o \in ConfigOutcomes :
         LET r == WatcherHandlerInit(o)
         IN  /\ startupCalls' = startupCalls \o r.calls
             /\ config' = r.config
             /\ phase' = CASE r.end = "exit" -> "exited"
                           [] r.end = "crash" -> "crashed"
                           [] OTHER -> "constructed"
    /\ UNCHANGED <<listening, ready, req, calls, resp, served>>

\* main(): RequestHandler(app, watcher_handler, ...) and start(), which
\* starts the server thread
Start ==
    /\ phase = "constructed"
    /\ phase' = "started"
    /\ UNCHANGED <<config, startupCalls, listening, ready, req, calls, resp,
                   served>>

\* what --ready_fd may be: absent, or the number of a descriptor
ReadyFds == {PyNone, PyStr(<<"3">>)}

\* os.write(int(ready_fd), b'\n') with its except OSError
WriteReady(ok) == IF ok THEN "written" ELSE "failed"

\* start() after server_thread.start(): the readiness report of the
\* starting thread
SignalReady ==
    /\ phase = "started"
    /\ ready = "pending"
    /\ \E ready_fd \in ReadyFds, ok \in BOOLEAN :
         ready' = IF Truthy(ready_fd) THEN WriteReady(ok) ELSE "unset"
    /\ UNCHANGED <<phase, config, startupCalls, listening, req, calls, resp,
                   served>>

\* the server thread: run_server() calls serve()
RunServer ==
    /\ phase = "started"
    /\ ~listening
    /\ listening' = TRUE
    /\ UNCHANGED <<phase, config, startupCalls, ready, req, calls, resp, served>>

Accepting == listening /\ req = NoRequest /\ served < MaxRequests

Handle(request, handler, r) ==
    /\ req' = request
    /\ calls' = r.calls
    /\ resp' = [handler |-> handler, exc |-> r.exc, status |-> r.status,
                val |-> r.val]
    /\ UNCHANGED <<phase, config, startupCalls, listening, ready, served>>

\* GET /api/v3/movie<movie_id:id_filter>
GetMovie ==
    /\ Accepting
    /\ \E seg \in Segments :
         /\ IdFilterMatches(seg)
         /\ \E lo \in ListOutcomes :
              \E metas \in MetaChoices(to_id(seg), lo) :
                Handle([method |-> "GET", route |-> "movie", seg |-> seg,
                        body |-> PyNone],
                       "get_movie", get_movie(to_id(seg), lo, metas))

\* PUT /api/v3/movie<movie_id:id_filter>
PutMovie ==
    /\ Accepting
    /\ \E seg \in Segments, body \in PutBodies :
         /\ IdFilterMatches(seg)
         /\ Handle([method |-> "PUT", route |-> "movie", seg |-> seg,
                    body |-> body],
                   "put_movie", put_movie(to_id(seg)))

\* GET /api/v3/movie/1 and /api/v3/movie/tt1 when the source lists the
\* movie and answers the metadata request with any of MetadataRecords
GetMovieEnriched ==
    /\ Accepting
    /\ \E seg \in {<<"/", "1">>, <<"/", "t", "t", "1">>}, mo \in EnrichOutcomes :
         Handle([method |-> "GET", route |-> "movie", seg |-> seg,
                 body |-> PyNone],
                "get_movie",
                get_movie(to_id(seg), Json(Catalog(<<Movie1>>)), <<mo>>))

\* GET /api/v3/movie<rest> when id_filter does not match: '/<path:path>'
LogUnknown ==
    /\ Accepting
    /\ \E seg \in Segments :
         /\ ~IdFilterMatches(seg)
         /\ Handle([method |-> "GET", route |-> "movie", seg |-> seg,
                    body |-> PyNone],
                   "log_unknown", log_unknown)

\* POST /api/v3/movie
AddMovie ==
    /\ Accepting
    /\ \E body \in AddBodies, ao \in AddOutcomes, lo \in ListOutcomes :
         LET id == IF body.t = "dict" /\ "tmdbId" \in DOMAIN body.d
                   THEN PyStrOf(body.d.tmdbId)
                   ELSE IF body.t = "dict" /\ "imdbId" \in DOMAIN body.d
                   THEN body.d.imdbId.s ELSE <<>>
         IN  \E metas \in MetaChoices(id, lo) :
               Handle([method |-> "POST", route |-> "movie", seg |-> <<>>,
                       body |-> body],
                      "add_movie", add_movie(body, ao, lo, metas))

\* POST /api/v3/Command/
DoCommand ==
    /\ Accepting
    /\ \E body \in CommandBodies, so \in SearchOutcomes, lo \in ListOutcomes :
         LET id == IF body.t = "dict" /\ body.d.movieIds.l # <<>>
                   THEN PyStrOf(body.d.movieIds.l[1]) ELSE <<>>
         IN  \E metas \in MetaChoices(id, lo) :
               Handle([method |-> "POST", route |-> "Command", seg |-> <<>>,
                       body |-> body],
                      "do_command", do_command(body, lo, metas, so))

\* GET /api/v3/qualityProfile
GetQualities ==
    /\ Accepting
    /\ Handle([method |-> "GET", route |-> "qualityProfile", seg |-> <<>>,
               body |-> PyNone],
              "get_qualities", get_qualities(config))

\* GET /api/v3/rootfolder
GetRootfolder ==
    /\ Accepting
    /\ \E o \in ConfigOutcomes, isdir \in BOOLEAN :
         Handle([method |-> "GET", route |-> "rootfolder", seg |-> <<>>,
                 body |-> PyNone],
                "get_rootfolder", get_rootfolder(config, o, isdir))

\* GET /api/v3/system/status
GetStatus ==
    /\ Accepting
    /\ \E o \in VersionOutcomes :
         Handle([method |-> "GET", route |-> "system/status", seg |-> <<>>,
                 body |-> PyNone],
                "get_status", get_status(o))

\* the server sends the response; the worker takes the next request
Deliver ==
    /\ req # NoRequest
    /\ req' = NoRequest
    /\ calls' = <<>>
    /\ resp' = NoResponse
    /\ served' = served + 1
    /\ UNCHANGED <<phase, config, startupCalls, listening, ready>>

Next ==
    \/ Construct
    \/ Start
    \/ SignalReady
    \/ RunServer
    \/ GetMovie
    \/ PutMovie
    \/ LogUnknown
    \/ AddMovie
    \/ DoCommand
    \/ GetQualities
    \/ GetRootfolder
    \/ GetStatus
    \/ Deliver

Spec == Init /\ [][Next]_vars

\* The quality-profile endpoint over the configurations the source may
\* hold: the process has fetched one of them and is serving.
InitQuality ==
    /\ phase = "started"
    /\ config \in {Config(profiles) : profiles \in ProfileLists}
    /\ startupCalls = WatcherHandlerInit(Json(ConfigReply(config))).calls
    /\ listening = TRUE
    /\ ready = "unset"
    /\ req = NoRequest
    /\ calls = <<>>
    /\ resp = NoResponse
    /\ served = 0

\* Metadata enrichment over the metadata records the source may hold.
InitEnrich ==
    /\ phase = "started"
    /\ config = GoodConfig
    /\ startupCalls = WatcherHandlerInit(Json(ConfigReply(config))).calls
    /\ listening = TRUE
    /\ ready = "unset"
    /\ req = NoRequest
    /\ calls = <<>>
    /\ resp = NoResponse
    /\ served = 0

NextEnrich ==
    \/ GetMovieEnriched
    \/ Deliver

SpecEnrich == InitEnrich /\ [][NextEnrich]_vars

NextQuality ==
    \/ GetQualities
    \/ Deliver

SpecQuality == InitQuality /\ [][NextQuality]_vars

\* ===================================================== properties
AllCalls == startupCalls \o calls
Handled == req # NoRequest
IsGetMovie == Handled /\ resp.handler = "get_movie"
MovieId == to_id(req.seg)
CallsOf(mode) == {i \in DOMAIN calls : calls[i].mode = mode}

\* a get_data call that came back with a JSON object
ReturnedDict(c) == c.raised = "" /\ c.returned.t = "dict"
\* ... that carries a 'movies' list
ReturnedMovies(c) == ReturnedDict(c) /\ "movies" \in DOMAIN c.returned.d
MoviesOf(c) == c.returned.d.movies.l
\* a listing entry with the fields parse_liststatus reads
Complete(m) == m.t = "dict" /\ {"tmdbid", "imdbid"} \subseteq DOMAIN m.d

\* C1 (as claimed): whenever the GET of a get_data call fails with a
\* connection error the call returns the failure envelope and does not
\* raise, and a call whose GET does not fail on TLS never raises.
C1_ConnectionFailureReturnsEnvelope ==
    \A i \in DOMAIN AllCalls :
        LET c == AllCalls[i]
        IN  /\ c.outcome = "conn" =>
                 c.raised = "" /\ c.returned = FailureEnvelope(ConnectError)
            /\ c.outcome # "ssl" => c.raised = ""

\* C2 (as claimed): a fetch of the full catalog issues no movie_metadata
\* call, and a fetch of one movie by id always issues one.
C2_SingleFetchAlwaysEnriches ==
    IsGetMovie =>
        IF MovieId = <<>> THEN CallsOf("movie_metadata") = {}
        ELSE CallsOf("movie_metadata") # {}

\* C2 (amended): in every request, a liststatus call for the full catalog
\* is followed by no movie_metadata call; a liststatus call for one id is
\* followed by a movie_metadata call exactly when its reply lists at least
\* one movie whose first entry is a complete listing record, and that call
\* asks for the imdbid of that first entry.
C2_EnrichmentFollowsListing ==
    \A i \in CallsOf("liststatus") :
        IF calls[i].vars = NoVars THEN CallsOf("movie_metadata") = {}
        ELSE LET listed == /\ ReturnedMovies(calls[i])
                           /\ MoviesOf(calls[i]) # <<>>
                           /\ Complete(MoviesOf(calls[i])[1])
             IN  /\ listed <=> (i + 1) \in CallsOf("movie_metadata")
                 /\ listed =>
                      calls[i + 1].vars =
                        IdString("imdbid", MoviesOf(calls[i])[1].d.imdbid.s)

\* C2 witness: a single movie was fetched by id, the source listed it, and
\* its metadata was asked for.
C2_Witness ==
    /\ IsGetMovie /\ MovieId = <<"1">>
    /\ Len(calls) = 2
    /\ calls[2].mode = "movie_metadata"
    /\ calls[2].vars = IdString("imdbid", <<"t", "t", "1">>)

\* C3 (as claimed): a GET of one movie whose liststatus reply reports no
\* match (no 'movies' payload, or an empty list) is answered 404 NotFound.
C3_NoMatchIsNotFound ==
    (/\ IsGetMovie /\ MovieId # <<>>
     /\ ReturnedDict(calls[1])
     /\ (ReturnedMovies(calls[1]) => MoviesOf(calls[1]) = <<>>))
    => /\ resp.exc = ""
       /\ resp.status = 404
       /\ resp.val = Dumps(NotFound)

\* the request is a POST /api/v3/movie whose body names a movie
IsAdd == Handled /\ req.method = "POST" /\ req.route = "movie"
AddHasId ==
    req.body.t = "dict" /\ {"tmdbId", "imdbId"} \cap DOMAIN req.body.d # {}
\* the source answered the add and then listed the movie with its metadata
AddAnswered ==
    /\ Len(calls) = 3
    /\ calls[1].mode = "addmovie" /\ ReturnedDict(calls[1])
    /\ "response" \in DOMAIN calls[1].returned.d
    /\ ReturnedMovies(calls[2]) /\ MoviesOf(calls[2]) = <<Movie603>>
    /\ ReturnedDict(calls[3]) /\ "tmdb_data" \in DOMAIN calls[3].returned.d
\* the body the callback returned encodes this value
Encodes(val) == val.t = "str" /\ "json" \in DOMAIN val
ErrorEntries == resp.val.json.l

\* C4 (as claimed): an add with an id and addOptions that the source accepts
\* (response true) is answered 201 with the fetched record, whose addOptions
\* are the request's.
C4_AddReturnsRecordWithOptions ==
    (/\ IsAdd /\ AddHasId /\ "addOptions" \in DOMAIN req.body.d
     /\ AddAnswered
     /\ calls[1].returned.d.response = PyBool(TRUE))
    => /\ resp.exc = ""
       /\ resp.status = 201
       /\ Encodes(resp.val)
       /\ resp.val.json.t = "dict"
       /\ resp.val.json.d.tmdbId = PyInt(603)
       /\ resp.val.json.d.addOptions = req.body.d.addOptions

\* C5 (as claimed): an add the source refuses with an "already exists"
\* error is answered 400 with one validation error whose errorCode is the
\* duplicate-movie one and whose attemptedValue is the movie's tmdb id.
C5_DuplicateIsMovieExistsError ==
    (/\ IsAdd /\ AddHasId
     /\ AddAnswered
     /\ calls[1].returned = FailureEnvelope(ExistsError))
    => /\ resp.exc = ""
       /\ resp.status = 400
       /\ Encodes(resp.val)
       /\ resp.val.json.t = "list"
       /\ Len(ErrorEntries) = 1
       /\ ErrorEntries[1].d.errorCode = PyStr(<<"MovieExistsValidator">>)
       /\ ErrorEntries[1].d.attemptedValue = PyInt(603)

\* C6 (as claimed): an add whose body supplies no id (no body at all, or an
\* object with neither tmdbId nor imdbId) is answered 400 with exactly one
\* validation error, whose errorCode is "NotEmptyValidator", and fails in
\* no other way.
C6_NoIdIsNotEmptyError ==
    (IsAdd /\ ~AddHasId)
    => /\ resp.exc = ""
       /\ resp.status = 400
       /\ calls = <<>>
       /\ Encodes(resp.val)
       /\ resp.val.json.t = "list"
       /\ Len(ErrorEntries) = 1
       /\ ErrorEntries[1].d.errorCode = PyStr(<<"NotEmptyValidator">>)

\* seg without one leading '/'
Unslashed(seg) == IF seg # <<>> /\ seg[1] = "/" THEN Tail(seg) ELSE seg
Numeric(s) == \A i \in 1..Len(s) : IsDigit(s[i])
\* a token (no '/' in it) that begins with 'tt'
TtPrefixed(s) ==
    /\ Len(s) >= 2 /\ s[1] = "t" /\ s[2] = "t"
    /\ \A i \in 1..Len(s) : s[i] # "/"
\* 'tt' and then digits only
TtNumber(s) == TtPrefixed(s) /\ Numeric(SubSeq(s, 3, Len(s)))

IsGetPath == Handled /\ req.method = "GET" /\ req.route = "movie"

\* how a GET of /api/v3/movie<seg> was dispatched
Dispatch ==
    /\ resp.handler \in {"get_movie", "log_unknown"}
    /\ resp.handler = "log_unknown" =>
         resp.exc = "" /\ resp.status = 404 /\ calls = <<>>
    /\ resp.handler = "get_movie" =>
         /\ calls[1].mode = "liststatus"
         /\ calls[1].vars =
              IF Unslashed(req.seg) = <<>> THEN NoVars
              ELSE IF TtPrefixed(Unslashed(req.seg))
                   THEN IdString("imdbid", Unslashed(req.seg))
                   ELSE IdString("tmdbid", Unslashed(req.seg))

\* C7 (as claimed): the movie route matches exactly the segments that,
\* after an optional leading '/', are empty, numeric or begin with 'tt';
\* the empty and numeric ones go to the list / numeric lookup, the 'tt'
\* ones to the imdbid lookup, every other one to the unknown-route handler.
C7_TtPrefixedMatches ==
    IsGetPath =>
        /\ resp.handler = "get_movie" <=>
             \/ Numeric(Unslashed(req.seg))
             \/ TtPrefixed(Unslashed(req.seg))
        /\ Dispatch

\* C7 (amended): as claimed, with a 'tt' token being 'tt' followed by
\* digits only (possibly none).
C7_RouteMatchesIds ==
    IsGetPath =>
        /\ resp.handler = "get_movie" <=>
             \/ Numeric(Unslashed(req.seg))
             \/ TtNumber(Unslashed(req.seg))
        /\ Dispatch

\* C7 witness: '/tt1' was matched and looked up by imdbid
C7_Witness ==
    /\ IsGetPath /\ req.seg = <<"/", "t", "t", "1">>
    /\ resp.handler = "get_movie"
    /\ calls[1].vars = IdString("imdbid", <<"t", "t", "1">>)

\* the record the adapter builds for listing entry m carries m's ids
RecordOf(rec, m) ==
    /\ rec.t = "dict"
    /\ rec.d.tmdbId = PyInt(IntOfStr(m.d.tmdbid.s))
    /\ rec.d.id = rec.d.tmdbId
    /\ rec.d.imdbId = m.d.imdbid

\* the catalog was asked for and the source returned one of complete entries
CatalogReturned ==
    /\ IsGetMovie /\ MovieId = <<>>
    /\ ReturnedMovies(calls[1])
    /\ \A i \in DOMAIN MoviesOf(calls[1]) : Complete(MoviesOf(calls[1])[i])

OneRecordPerEntry ==
    /\ resp.exc = ""
    /\ resp.status = 200
    /\ Encodes(resp.val)
    /\ resp.val.json.t = "list"
    /\ Len(resp.val.json.l) = Len(MoviesOf(calls[1]))
    /\ \A i \in DOMAIN MoviesOf(calls[1]) :
         RecordOf(resp.val.json.l[i], MoviesOf(calls[1])[i])

\* C8 (as claimed): a GET with the id omitted is answered 200 with one
\* record per entry of the catalog, for every catalog, the empty one too.
C8_CatalogAlwaysListed == CatalogReturned => OneRecordPerEntry

\* C8 (amended): a GET with the id omitted is answered 200 with one record
\* per entry, in order, for every catalog of at least one entry; for the
\* empty catalog the answer is 404 NotFound.
C8_NonEmptyCatalogListed ==
    CatalogReturned =>
        IF MoviesOf(calls[1]) # <<>> THEN OneRecordPerEntry
        ELSE resp.exc = "" /\ resp.status = 404 /\ resp.val = Dumps(NotFound)

\* C8 witness: a catalog of two movies was listed
C8_Witness ==
    /\ CatalogReturned
    /\ MoviesOf(calls[1]) = <<Movie603, Movie1>>
    /\ resp.status = 200

\* the getconfig reply carried a configuration
ConfigReceived(c) == ReturnedDict(c) /\ "config" \in DOMAIN c.returned.d
Ended == phase \in {"exited", "crashed"}

\* C9: exactly one getconfig call is made, before the server is started;
\* the server listens and requests are handled only after it returned a
\* configuration; when the source is unreachable or the reply has no
\* configuration the process ends with that one call made, never listens
\* and handles no request.
C9_ConfigBeforeServing ==
    /\ Len(startupCalls) <= 1
    /\ \A i \in DOMAIN startupCalls : startupCalls[i].mode = "getconfig"
    /\ (phase # "boot") <=> (Len(startupCalls) = 1)
    /\ (listening \/ Handled \/ served > 0) =>
         /\ phase = "started"
         /\ ConfigReceived(startupCalls[1])
    /\ (startupCalls # <<>> /\ ~ConfigReceived(startupCalls[1])) =>
         /\ Ended
         /\ ~listening /\ ~Handled /\ served = 0

\* C9 witness: the source was unreachable and the process ended
C9_Witness ==
    /\ Ended
    /\ Len(startupCalls) = 1
    /\ startupCalls[1].outcome = "conn"

IsCommand == Handled /\ req.method = "POST" /\ req.route = "Command"
CommandName == req.body.d.name.s[1]
FirstId == req.body.d.movieIds.l[1]

\* the lookup of a numeric first id found the movie and its metadata
LookedUp ==
    /\ Len(calls) >= 2
    /\ ReturnedMovies(calls[1]) /\ MoviesOf(calls[1]) = <<Movie603>>
    /\ ReturnedDict(calls[2])

\* C10 (as claimed): a MoviesSearch command whose first movie id is numeric
\* looks the movie up, forwards a search_results request for its imdb id
\* and is answered 200 when the source returns a result; one whose first id
\* is an imdb id forwards the request directly; any other command is
\* answered 404 and forwards no search.
C10_SearchConvertsAndForwards ==
    (IsCommand /\ req.body.t = "dict") =>
        IF CommandName # "MoviesSearch"
        THEN resp.exc = "" /\ resp.status = 404 /\ calls = <<>>
        ELSE (/\ req.body.d.movieIds.l # <<>>
              /\ FirstId.t = "int" => LookedUp)
             => /\ CallsOf("search_results") = {Len(calls)}
                /\ calls[Len(calls)].vars =
                     IdString("imdbid", IF FirstId.t = "int"
                                        THEN Movie603.d.imdbid.s
                                        ELSE FirstId.s)
                /\ ReturnedDict(calls[Len(calls)]) =>
                     resp.exc = "" /\ resp.status = 200

\* the request is a GET of the root folder or of the system status
IsRootfolder == Handled /\ resp.handler = "get_rootfolder"
IsStatus == Handled /\ resp.handler = "get_status"
\* the source was unreachable, or answered with response false
SourceFailed(c) ==
    \/ c.outcome = "conn"
    \/ ReturnedDict(c) /\ c.returned.d.response = PyBool(FALSE)
SourceMessage(c) ==
    IF c.outcome = "conn" THEN PyStr(ConnectError) ELSE c.returned.d.error
\* the source answered with response true
SourceAnswered(c) == ReturnedDict(c) /\ c.returned.d.response = PyBool(TRUE)
\* the body sent for what the callback returned: a dict is sent as its JSON
\* text
Body(val) == IF val.t = "dict" THEN Dumps(val) ELSE val

\* C11 (as claimed): a root-folder or status request whose source call
\* fails (the source is unreachable or answers response false) is answered
\* 405 with {error: message}; one whose source call succeeds is answered 200
\* with the one-entry root-folder list (id 1, accessible) or with {version}.
C11_FailureIs405 ==
    (IsRootfolder \/ IsStatus) =>
      /\ SourceFailed(calls[1]) =>
           /\ resp.exc = ""
           /\ resp.status = 405
           /\ Body(resp.val) = Dumps(PyDict([error |-> SourceMessage(calls[1])]))
      /\ SourceAnswered(calls[1]) =>
           /\ resp.exc = ""
           /\ resp.status = 200
           /\ Encodes(resp.val)
           /\ IsRootfolder =>
                /\ resp.val.json.t = "list"
                /\ Len(resp.val.json.l) = 1
                /\ resp.val.json.l[1].d.id = PyInt(1)
                /\ resp.val.json.l[1].d.accessible = PyBool(TRUE)
           /\ IsStatus =>
                resp.val.json = PyDict([version |-> calls[1].returned.d.version])

\* the request is a GET of the quality profiles
IsQualities == Handled /\ resp.handler = "get_qualities"
\* the profiles of the configuration, in the order the source lists them
ConfigProfiles == config.d.Quality.d.Profiles.ord
\* the profiles sent
SentProfiles == IF Encodes(resp.val) THEN resp.val.json.l ELSE <<>>

\* C12: the profiles sent are the configured ones in the order the source
\* lists them, and the i-th of them has id i, so the ids are exactly 1..n.
C12_ProfileIdsAreSequential ==
    IsQualities =>
      /\ resp.exc = ""
      /\ Len(SentProfiles) = Len(ConfigProfiles)
      /\ \A i \in DOMAIN SentProfiles :
           /\ SentProfiles[i].d.id = PyInt(i)
           /\ SentProfiles[i].d.name = PyStr(<<ConfigProfiles[i].k>>)

\* two profiles listed out of alphabetical order are sent as ids 1 and 2 in
\* the listed order
C12_Witness ==
    /\ IsQualities
    /\ Len(SentProfiles) = 2
    /\ SentProfiles[1].d.name = PyStr(<<"Mobile">>)
    /\ SentProfiles[2].d.name = PyStr(<<"Default">>)
    /\ SentProfiles[1].d.id = PyInt(1)
    /\ SentProfiles[2].d.id = PyInt(2)

\* every quality item sent, over all profiles
SentItems ==
    UNION {{SentProfiles[i].d.items.l[j].d.quality.d :
              j \in DOMAIN SentProfiles[i].d.items.l} : i \in DOMAIN SentProfiles}
\* the resolution table
Resolutions ==
    {[token |-> <<"s", "d">>, lines |-> 480],
     [token |-> <<"7", "2", "0", "p">>, lines |-> 720],
     [token |-> <<"1", "0", "8", "0", "p">>, lines |-> 1080],
     [token |-> <<"4", "k">>, lines |-> 2160]}
\* the entries of the table the label selects: those whose token is what
\* follows the first '-' of the lower-cased label; none when the label has
\* no '-'
Selected(label) ==
    {e \in Resolutions :
       \E i \in DOMAIN label :
         /\ label[i] = "-"
         /\ \A j \in 1..(i - 1) : label[j] # "-"
         /\ Lower(SubSeq(label, i + 1, Len(label))) = e.token}

\* C13: the resolution of every quality item sent is one of 0, 480, 720,
\* 1080 and 2160; it is the table value of the token that follows the first
\* '-' of the (lower-cased) label when the table has that token, and 0
\* exactly when it has not or the label has no '-'.
C13_ResolutionFromTable ==
    IsQualities =>
      \A q \in SentItems :
        /\ q.resolution.n \in {0, 480, 720, 1080, 2160}
        /\ (q.resolution.n = 0) <=> (Selected(q.name.s) = {})
        /\ \A e \in Selected(q.name.s) : q.resolution.n = e.lines

\* one answer carries 'BluRay-4K' at 2160, 'Web-DL-720P' (token 'dl-720p')
\* at 0 and '4K' (no '-') at 0
C13_Witness ==
    /\ IsQualities
    /\ \E q \in SentItems : q.name.s = BluRay4K /\ q.resolution.n = 2160
    /\ \E q \in SentItems : q.name.s = WebDashDL720P /\ q.resolution.n = 0
    /\ \E q \in SentItems : q.name.s = Bare4K /\ q.resolution.n = 0

\* C14: the step that handles a PUT of a movie, whatever its id and body,
\* answers 200 without raising, makes no call to the source and changes
\* nothing the adapter keeps (its configuration, the calls made so far, the
\* server).
C14_PutIsNoOp ==
    [][(req = NoRequest /\ req'.method = "PUT") =>
         /\ resp'.handler = "put_movie"
         /\ resp'.exc = ""
         /\ resp'.status = 200
         /\ calls' = <<>>
         /\ UNCHANGED <<phase, config, startupCalls, listening, ready, served>>]_vars

\* a PUT of movie 1 with a JSON body has been answered
C14_Witness ==
    /\ Handled
    /\ req.method = "PUT" /\ req.seg = <<"/", "1">> /\ req.body.t = "dict"
    /\ resp.handler = "put_movie" /\ resp.status = 200
    /\ calls = <<>>

\* the movie_metadata calls of the request, in order
MetaCalls == SelectSeq(calls, LAMBDA c : c.mode = "movie_metadata")
\* the movies the liststatus call of the request listed
Listed ==
    IF \E i \in CallsOf("liststatus") : ReturnedMovies(calls[i])
    THEN MoviesOf(calls[CHOOSE i \in CallsOf("liststatus") : ReturnedMovies(calls[i])])
    ELSE <<>>
\* the first call the handler of the request makes, "" when it makes none
FirstCall ==
    CASE resp.handler = "get_movie" -> "liststatus"
      [] resp.handler = "get_rootfolder" -> "getconfig"
      [] resp.handler = "get_status" -> "version"
      [] resp.handler = "add_movie" /\ AddHasId -> "addmovie"
      [] resp.handler = "do_command" /\ calls # <<>> ->
            IF Prefix(PyStrOf(FirstId), 2) = <<"t", "t">> THEN "search_results"
            ELSE "liststatus"
      [] OTHER -> ""

\* C15: while one request is handled no call to the source is repeated:
\* the listing, the add, the search, the configuration and the version are
\* each asked for at most once, the metadata once per listed movie in the
\* listed order, the first call of the handler is made exactly once, and
\* this also when a call came back with response false.
C15_NoRetries ==
    Handled =>
      /\ \A mode \in {"liststatus", "addmovie", "search_results",
                       "getconfig", "version"} :
           Cardinality(CallsOf(mode)) <= 1
      /\ Len(MetaCalls) <= Len(Listed)
      /\ \A i \in DOMAIN MetaCalls :
           MetaCalls[i].vars = IdString("imdbid", Listed[i].d.imdbid.s)
      /\ IF FirstCall = "" THEN calls = <<>>
         ELSE Cardinality(CallsOf(FirstCall)) = 1 /\ calls[1].mode = FirstCall
      /\ resp.handler \in {"get_rootfolder", "get_status"} => Len(calls) = 1

\* an add the source refused (response false) was followed by one listing
\* and one metadata call, and the add was not asked again
C15_Witness ==
    /\ IsAdd
    /\ Len(calls) = 3
    /\ calls[1].mode = "addmovie"
    /\ calls[1].returned = FailureEnvelope(SourceError)
    /\ calls[2].mode = "liststatus"
    /\ calls[3].mode = "movie_metadata"

\* C16 (as claimed): the readiness newline has been written only when the
\* server is listening, whatever the order in which the starting thread and
\* the server thread run; and a write that failed leaves the process
\* running.
C16_ReadyOnlyWhenListening ==
    /\ ready = "written" => listening
    /\ ready = "failed" => phase = "started"

\* one movie was asked for, the source listed it and answered the metadata
\* request with a tmdb_data record
IsEnriched ==
    /\ IsGetMovie
    /\ Len(calls) = 2
    /\ ReturnedDict(calls[2])
    /\ "tmdb_data" \in DOMAIN calls[2].returned.d
TmdbData == calls[2].returned.d.tmdb_data.d
Sent == resp.val.json.d
Has(keys) == keys \subseteq DOMAIN TmdbData
\* the release sets of the first production country
ChosenSets ==
    IF Has({"production_countries", "release_dates"})
       /\ TmdbData.production_countries.l # <<>>
    THEN SelectSeq(TmdbData.release_dates.d.results.l,
                   LAMBDA x : x.d.iso_3166_1 =
                              TmdbData.production_countries.l[1].d.iso_3166_1)
    ELSE <<>>
\* the cinema releases (type 3) of the first of them
CinemaReleases ==
    IF ChosenSets = <<>> THEN <<>>
    ELSE SelectSeq(ChosenSets[1].d.release_dates.l, LAMBDA x : x.d.type = PyInt(3))
\* the lookup misses of the record: absent keys, an empty company list, an
\* empty country list, no release set for the country
Misses ==
    Cardinality(AllMetadataKeys \ DOMAIN TmdbData)
    + (IF Has({"production_companies"}) /\ TmdbData.production_companies.l = <<>>
       THEN 1 ELSE 0)
    + (IF Has({"production_countries"}) /\ TmdbData.production_countries.l = <<>>
       THEN 1 ELSE 0)
    + (IF Has({"production_countries", "release_dates"})
          /\ TmdbData.production_countries.l # <<>> /\ ChosenSets = <<>>
       THEN 1 ELSE 0)

\* what each enrichment step leaves in the record sent when it is applied
RatingsApplied ==
    /\ Has({"vote_count", "vote_average"})
    /\ "ratings" \in DOMAIN Sent
    /\ Sent.ratings = PyDict([votes |-> TmdbData.vote_count,
                              value |-> TmdbData.vote_average])
StudioApplied ==
    /\ Has({"production_companies"})
    /\ TmdbData.production_companies.l # <<>>
    /\ Sent.studio = TmdbData.production_companies.l[1].d.name
CinemaApplied ==
    /\ CinemaReleases # <<>>
    /\ "inCinemas" \in DOMAIN Sent
    /\ Sent.inCinemas = CinemaReleases[1].d.release_date
ImagesApplied ==
    /\ Has({"poster_path", "backdrop_path"})
    /\ Len(Sent.images.l) = (IF TmdbData.poster_path = PyNone THEN 0 ELSE 1) + 1
    /\ Sent.images.l[Len(Sent.images.l)].d.coverType = PyStr(<<"fanart">>)
GenresApplied ==
    /\ Has({"genres"})
    /\ "genres" \in DOMAIN Sent
    /\ Sent.genres.l = [i \in DOMAIN TmdbData.genres.l |-> TmdbData.genres.l[i].d.name]
TitlesApplied ==
    /\ Has({"alternative_titles", "id"})
    /\ Len(Sent.alternateTitles.l) = Len(TmdbData.alternative_titles.d.titles.l)
    /\ \A i \in DOMAIN Sent.alternateTitles.l :
         Sent.alternateTitles.l[i].d.title = TmdbData.alternative_titles.d.titles.l[i].d.title

\* C17 (as claimed): a metadata record with a single lookup miss (no
\* production company, no production country, no release set for the
\* country, or one field absent) is answered, and every enrichment step
\* whose own data is there (ratings, images, genres, alternate titles,
\* release dates, studio) is still applied.
C17_EveryMissIsLocal ==
    (IsEnriched /\ Misses = 1) =>
      /\ resp.exc = ""
      /\ Encodes(resp.val)
      /\ Has({"vote_count", "vote_average"}) => RatingsApplied
      /\ (Has({"production_companies"}) /\ TmdbData.production_companies.l # <<>>)
           => StudioApplied
      /\ CinemaReleases # <<>> => CinemaApplied
      /\ Has({"poster_path", "backdrop_path"}) => ImagesApplied
      /\ Has({"genres"}) => GenresApplied
      /\ Has({"alternative_titles", "id"}) => TitlesApplied

\* the fields of tmdb_data each step of the mapping reads, in the order of
\* the steps: data_map, studio, country, release dates, images, genres,
\* alternate titles
StepKeys ==
    <<{"status", "homepage", "runtime", "vote_count", "vote_average"},
      {"production_companies"}, {"production_countries"}, {"release_dates"},
      {"poster_path", "backdrop_path"}, {"genres"},
      {"alternative_titles", "id"}>>
\* no field read by the first k steps is absent
Ran(k) == \A j \in 1..k : Has(StepKeys[j])

\* C17 (amended): the request is answered whatever the metadata record
\* lacks.  An empty company list, an empty country list and a country
\* without a release set (or without a cinema release) leave only their own
\* field unset.  An absent field stops the mapping at the step that reads
\* it: a step is applied exactly when no field read by it or by a step
\* before it is absent.
C17_AbsentFieldStopsMapping ==
    IsEnriched =>
      /\ resp.exc = ""
      /\ resp.status = 200
      /\ Encodes(resp.val)
      /\ RatingsApplied <=> Ran(1)
      /\ StudioApplied <=> (Ran(2) /\ TmdbData.production_companies.l # <<>>)
      /\ CinemaApplied <=> (Ran(4) /\ CinemaReleases # <<>>)
      /\ ImagesApplied <=> Ran(5)
      /\ GenresApplied <=> Ran(6)
      /\ TitlesApplied <=> Ran(7)

\* a record whose only miss is the production company is sent with the
\* studio left blank and every other step applied
C17_Witness ==
    /\ IsEnriched
    /\ Misses = 1
    /\ Has({"production_companies"}) /\ TmdbData.production_companies.l = <<>>
    /\ resp.exc = ""
    /\ Sent.studio = PyStr(<<>>)
    /\ RatingsApplied /\ CinemaApplied /\ ImagesApplied
    /\ GenresApplied /\ TitlesApplied

====
